---- MODULE Spec2Model ----
(***************************************************************************)
(* A state-machine model of nio's Olm encryption engine                    *)
(* (src/nio/encryption.py) and of its device trust stores.                 *)
(*                                                                         *)
(* An engine is one Olm object.  Two engines, "A" and "B", can run side by *)
(* side; user "C" has devices in the directory but no engine of its own    *)
(* (a foreign client), and user "Z" is not in the directory at all.        *)
(***************************************************************************)
EXTENDS Integers, Sequences, FiniteSets, TLC

VARIABLES
    devices,                 \* Olm.devices: user -> list of OlmDevice
    trust_db,                \* DeviceStore._entries of each engine
    trust_file,              \* the lines of each engine's trusted_devices file
    account,                 \* Olm.account: the unconsumed one-time keys
    sessions,                \* Olm.sessions: (user, device) -> list of Session
    inbound_group_sessions,  \* Olm.inbound_group_sessions: room -> dict by session id
    outbound_group_sessions, \* Olm.outbound_group_sessions: room -> session or None
    shared_sessions,         \* Olm.shared_sessions: list of session ids
    group_ids,               \* number of OutboundGroupSession() objects made so far
    olmaccount,              \* table olmaccount: the pickled account
    olmsessions,             \* table olmsessions: rows, in insertion order
    db_inbound_group_sessions, \* table inbound_group_sessions: rows, in insertion order
    sent,                    \* results of group_encrypt handed to the transport
    returned,                \* per room, what the last group_encrypt that returned gave
    key_store,               \* a KeyStore: its _entries and the lines of its file
    last                     \* the last operation: its arguments and its outcome

trust == <<trust_db, trust_file>>
pairwise == <<account, sessions, olmaccount, olmsessions>>
group == <<inbound_group_sessions, outbound_group_sessions, shared_sessions,
           group_ids, db_inbound_group_sessions>>
vars == <<devices, key_store, trust, pairwise, group, sent, returned, last>>

----------------------------------------------------------------------------
(* Bounds of the model.                                                    *)
MaxIdx == 2             \* ratchet counters (message index, messages per session)
MaxGroupSessions == 2   \* outbound group sessions an engine creates
MaxEntries == 3         \* entries a KeyStore holds
MaxRows == 3            \* rows of the inbound_group_sessions table
MaxSent == 2            \* room messages the transport carries

----------------------------------------------------------------------------
(* Option values: None is the empty sequence, Some(x) a one-element one.   *)
None == <<>>
Some(x) == <<x>>

Range(s) == {s[i] : i \in DOMAIN s}

\* All orderings of a finite set (the orders list(set(...)) can produce).
Perms(S) ==
    {p \in [1..Cardinality(S) -> S] : \A i, j \in 1..Cardinality(S) : p[i] = p[j] => i = j}

----------------------------------------------------------------------------
(* Identities.                                                             *)
Engines == {"A", "B"}

user(e) == e

device_id(e) == IF e = "A" THEN "DA" ELSE "DB"

\* account.identity_keys() of an engine
identity_keys(e) ==
    [ed25519 |-> IF e = "A" THEN "edA" ELSE "edB",
     curve25519 |-> IF e = "A" THEN "cvA" ELSE "cvB"]

OlmDevice(u, d, key_dict) == [user_id |-> u, device_id |-> d, keys |-> key_dict]

\* OlmDevice.__eq__: user id, device id and ed25519 key; a missing ed25519
\* key (KeyError) makes the comparison False.
OlmDeviceEq(a, b) ==
    IF "ed25519" \in DOMAIN a.keys /\ "ed25519" \in DOMAIN b.keys
    THEN /\ a.user_id = b.user_id
         /\ a.device_id = b.device_id
         /\ a.keys["ed25519"] = b.keys["ed25519"]
    ELSE FALSE

----------------------------------------------------------------------------
(* StoreEntry and the trust file.  A line of the file is the sequence of   *)
(* its space-separated fields.                                             *)
StoreEntry(u, d, kt, k) == [user_id |-> u, device_id |-> d, key_type |-> kt, key |-> k]

KeyTypeTag(kt) == "matrix-" \o kt

\* StoreEntry.from_line: None unless four fields and the ed25519 tag.
from_line(line) ==
    IF Len(line) < 4 THEN None
    ELSE IF line[3] = "matrix-ed25519"
         THEN Some(StoreEntry(line[1], line[2], "ed25519", line[4]))
         ELSE None

\* StoreEntry.to_line
to_line(entry) == <<entry.user_id, entry.device_id, KeyTypeTag(entry.key_type), entry.key>>

\* StoreEntry.from_olmdevice: one entry per ed25519 key of the device.
from_olmdevice(device) ==
    IF "ed25519" \in DOMAIN device.keys
    THEN <<StoreEntry(device.user_id, device.device_id, "ed25519", device.keys["ed25519"])>>
    ELSE <<>>

\* DeviceStore._load: blank lines, comments and unparsable lines are skipped.
RECURSIVE _load(_)
_load(lines) ==
    IF lines = <<>> THEN <<>>
    ELSE LET line == Head(lines)
             rest == _load(Tail(lines))
         IN IF line = <<>> \/ line[1] = "#" THEN rest
            ELSE IF from_line(line) = None THEN rest
                 ELSE from_line(line) \o rest

\* DeviceStore._save: the file is rewritten from the entries.
_save(entries) == [i \in DOMAIN entries |-> to_line(entries[i])]

\* DeviceStore.__iter__
DeviceStoreIter(entries) ==
    [i \in DOMAIN entries |->
        OlmDevice(entries[i].user_id, entries[i].device_id,
                  [ed25519 |-> entries[i].key])]

\* `device in self.trust_db`: iteration with OlmDevice.__eq__
InTrustDb(entries, device) ==
    \E i \in DOMAIN entries : OlmDeviceEq(device, DeviceStoreIter(entries)[i])

\* DeviceStore.check
check(entries, device) == InTrustDb(entries, device)

\* list.remove: drops the first occurrence.
RECURSIVE ListRemove(_, _)
ListRemove(s, x) ==
    IF s = <<>> THEN <<>>
    ELSE IF Head(s) = x THEN Tail(s)
         ELSE <<Head(s)>> \o ListRemove(Tail(s), x)

\* DeviceStore.add: the orders the entries can have after
\* `self._entries = list(set(self._entries + new_entries))`.
DeviceStoreAdd(entries, device) ==
    Perms(Range(entries \o from_olmdevice(device)))

\* DeviceStore.remove: (entries, removed) after removing the device's entries.
DeviceStoreRemove(entries, device) ==
    LET new == from_olmdevice(device)
    IN IF new # <<>> /\ new[1] \in Range(entries)
       THEN [entries |-> ListRemove(entries, new[1]), removed |-> 1]
       ELSE [entries |-> entries, removed |-> 0]

----------------------------------------------------------------------------
(* The record of the last operation.                                       *)
Op(op, e, res) == [op |-> op, eng |-> e, res |-> res]

\* verify_device adding the device without looking it up first
verify_device_unchecked(e, device) ==
    {[ret |-> "True", entries |-> new, saved |-> TRUE] :
        new \in DeviceStoreAdd(trust_db[e], device)}

\* Olm.verify_device: the value returned and the entries afterwards (any
\* of the orders DeviceStore.add can leave them in).
verify_device_results(e, device) ==
    IF InTrustDb(trust_db[e], device)
    THEN {[ret |-> "False", entries |-> trust_db[e], saved |-> FALSE]}
    ELSE {[ret |-> "True", entries |-> new, saved |-> TRUE] :
             new \in DeviceStoreAdd(trust_db[e], device)}

\* Olm.verify_device
verify_device(e, device) ==
    /\ \E r \in verify_device_results(e, device) :
          /\ trust_db' = [trust_db EXCEPT ![e] = r.entries]
          /\ trust_file' = [trust_file EXCEPT
                               ![e] = IF r.saved THEN _save(r.entries) ELSE @]
          /\ last' = Op("verify_device", e, r.ret)
    /\ UNCHANGED <<devices, key_store, pairwise, group, sent, returned>>

\* Olm.unverify_device
unverify_device(e, device) ==
    LET r == DeviceStoreRemove(trust_db[e], device)
    IN /\ trust_db' = [trust_db EXCEPT ![e] = r.entries]
       /\ trust_file' = [trust_file EXCEPT ![e] = _save(r.entries)]
       /\ last' = Op("unverify_device", e, "None")
       /\ UNCHANGED <<devices, key_store, pairwise, group, sent, returned>>

\* DeviceStore._save stopped part-way: open(filename, "w") has emptied the
\* file and only some of the lines, from the first on, have reached it.
InterruptedSaves(entries) ==
    {SubSeq(_save(entries), 1, k) : k \in 0..(Len(entries) - 1)}

\* The process dies inside a _save of verify_device and the engine is
\* started again: the store is what _load reads from the file left behind.
verify_device_crashed(e, device) ==
    /\ \E r \in {x \in verify_device_results(e, device) : x.saved} :
          \E f \in InterruptedSaves(r.entries) :
             /\ trust_file' = [trust_file EXCEPT ![e] = f]
             /\ trust_db' = [trust_db EXCEPT ![e] = _load(f)]
    /\ last' = Op("verify_device", e, "crash")
    /\ UNCHANGED <<devices, key_store, pairwise, group, sent, returned>>

\* The same inside the _save of unverify_device
unverify_device_crashed(e, device) ==
    /\ \E f \in InterruptedSaves(DeviceStoreRemove(trust_db[e], device).entries) :
          /\ trust_file' = [trust_file EXCEPT ![e] = f]
          /\ trust_db' = [trust_db EXCEPT ![e] = _load(f)]
    /\ last' = Op("unverify_device", e, "crash")
    /\ UNCHANGED <<devices, key_store, pairwise, group, sent, returned>>

----------------------------------------------------------------------------
(* KeyStore (store/file_trustdb.py): a list of Ed25519Key records and a    *)
(* file of lines, a line being the sequence of its space-separated fields. *)
Ed25519Key(u, d, k) == [user_id |-> u, device_id |-> d, key |-> k]

\* Key.from_line: None unless four fields or more and the ed25519 tag
Key_from_line(line) ==
    IF Len(line) < 4 THEN None
    ELSE IF line[3] = "matrix-ed25519"
         THEN Some(Ed25519Key(line[1], line[2], line[4]))
         ELSE None

\* A line without the key type
Key_to_line_untagged(key) == <<key.user_id, key.device_id, key.key>>

\* Key.to_line
Key_to_line(key) == <<key.user_id, key.device_id, "matrix-ed25519", key.key>>

\* KeyStore._load: blank lines, comments and unparsable lines are skipped.
RECURSIVE KeyStore_load(_)
KeyStore_load(lines) ==
    IF lines = <<>> THEN <<>>
    ELSE LET line == Head(lines)
             rest == KeyStore_load(Tail(lines))
         IN IF line = <<>> \/ line[1] = "#" THEN rest
            ELSE IF Key_from_line(line) = None THEN rest
                 ELSE Key_from_line(line) \o rest

\* KeyStore._save: the file is replaced by the lines of the entries.
KeyStore_save(entries) == [i \in DOMAIN entries |-> Key_to_line(entries[i])]

\* KeyStore.get_key: the first entry of the device, or None
get_key(entries, user_id, dev_id) ==
    LET found == {i \in DOMAIN entries :
                     entries[i].user_id = user_id /\ entries[i].device_id = dev_id}
    IN IF found = {} THEN None
       ELSE Some(entries[CHOOSE i \in found : \A j \in found : i <= j])

\* KeyStore.check: `key in self._entries` with Ed25519Key.__eq__
KeyStore_check(entries, key) == key \in Range(entries)

\* add appending whatever the store holds
KeyStore_add_unchecked(entries, key) ==
    [raised |-> FALSE, ret |-> "True", entries |-> Append(entries, key), saved |-> TRUE]

\* KeyStore.add under _save_store: OlmTrustError leaves before the append
\* and before the save of the decorator; otherwise the key is appended.
KeyStore_add_result(entries, key) ==
    LET existing_key == get_key(entries, key.user_id, key.device_id)
    IN IF existing_key # None /\ existing_key[1].key # key.key
       THEN [raised |-> TRUE, ret |-> "OlmTrustError", entries |-> entries, saved |-> FALSE]
       ELSE [raised |-> FALSE, ret |-> "True", entries |-> Append(entries, key),
             saved |-> TRUE]

\* KeyStore.remove under _save_store: the first equal entry goes.
KeyStore_remove_result(entries, key) ==
    IF key \in Range(entries)
    THEN [ret |-> "True", entries |-> ListRemove(entries, key)]
    ELSE [ret |-> "False", entries |-> entries]

\* A call of KeyStore.add
KeyStore_add(key) ==
    LET r == KeyStore_add_result(key_store.entries, key)
    IN /\ Len(key_store.entries) < MaxEntries
       /\ key_store' = [entries |-> r.entries,
                        file |-> IF r.saved THEN KeyStore_save(r.entries)
                                 ELSE key_store.file]
       /\ last' = [op |-> "KeyStore.add", eng |-> key, res |-> r.ret]
       /\ UNCHANGED <<devices, trust, pairwise, group, sent, returned>>

\* A call of KeyStore.remove
KeyStore_remove(key) ==
    LET r == KeyStore_remove_result(key_store.entries, key)
    IN /\ key_store' = [entries |-> r.entries, file |-> KeyStore_save(r.entries)]
       /\ last' = [op |-> "KeyStore.remove", eng |-> key, res |-> r.ret]
       /\ UNCHANGED <<devices, trust, pairwise, group, sent, returned>>

----------------------------------------------------------------------------
(* The cryptographic engine (python-olm), as far as the Olm class uses it. *)
(* A pairwise session is named by the secret both ends share: who created  *)
(* it, for whose identity key, with which one-time key, and a number that  *)
(* stands for the creator's fresh ephemeral key.                           *)
UserIds == {"A", "B", "C"}
DevIds == {"DA", "DB", "DC"}
Pairs == UserIds \X DevIds

\* json.dumps of a dict, and a text that is no JSON document
_to_json(json_dict) == [json |-> TRUE, dict |-> json_dict]
NotJson == [json |-> FALSE, dict |-> [raw |-> "text"]]

\* olm.OutboundSession(account, id_key, one_time_key)
OutboundSession(e, id_key, one_time_key, n) ==
    [sec |-> [by |-> identity_keys(e).curve25519, peer |-> id_key,
              otk |-> one_time_key, n |-> n],
     role |-> "out", snd |-> 0, rcv |-> {}, pre |-> TRUE]

\* An account that accepts a one-time key it no longer holds
CanCreateInbound_any_key(e, otks, sender_key, message) ==
    /\ message.mtype = "prekey"
    /\ message.sec.peer = identity_keys(e).curve25519
    /\ message.sec.by = sender_key

\* olm.InboundSession(account, message, sender_key) succeeds for a pre-key
\* message made for this account with a one-time key it still holds.
CanCreateInbound(e, otks, sender_key, message) ==
    /\ message.mtype = "prekey"
    /\ message.sec.peer = identity_keys(e).curve25519
    /\ message.sec.by = sender_key
    /\ message.sec.otk \in otks

InboundSession(message) ==
    [sec |-> message.sec, role |-> "in", snd |-> 0, rcv |-> {}, pre |-> FALSE]

\* Session.matches(message), asked for pre-key messages only
SessionMatches(session, message) == session.sec = message.sec

\* Session.encrypt: the message and the advanced session
SessionEncrypt(session, plaintext) ==
    [message |-> [mtype |-> IF session.pre THEN "prekey" ELSE "normal",
                  sec |-> session.sec, role |-> session.role,
                  idx |-> session.snd, body |-> plaintext, mac |-> TRUE],
     session |-> [session EXCEPT !.snd = @ + 1]]

\* Session.decrypt succeeds for an intact message of the other end of the
\* same session whose message key was not used before.
CanDecrypt(session, message) ==
    /\ message.sec = session.sec
    /\ message.role # session.role
    /\ message.idx \notin session.rcv
    /\ message.mac

SessionDecrypt(session, message) ==
    [session EXCEPT !.rcv = @ \cup {message.idx}, !.pre = FALSE]

\* olm.OutboundGroupSession(): a fresh id, message index 0
OutboundGroupSession(e, n) == [id |-> [by |-> e, n |-> n], message_index |-> 0]

\* OutboundGroupSession.session_key: the ratchet exported at the current index
session_key(group_session) ==
    [id |-> group_session.id, index |-> group_session.message_index]

\* olm.InboundGroupSession(session_key): can decrypt from the key's index on
InboundGroupSession(key) == [id |-> key.id, first |-> key.index]

\* OutboundGroupSession.encrypt
GroupSessionEncrypt(group_session, plaintext) ==
    [ciphertext |-> [id |-> group_session.id, index |-> group_session.message_index,
                     body |-> plaintext],
     session |-> [group_session EXCEPT !.message_index = @ + 1]]

\* InboundGroupSession.decrypt
CanGroupDecrypt(session, ciphertext) ==
    ciphertext.id = session.id /\ ciphertext.index >= session.first

----------------------------------------------------------------------------
(* Dictionaries keyed by session id: a set of [key, value] entries.        *)
DictKeys(d) == {x.key : x \in d}
DictGet(d, k) == (CHOOSE x \in d : x.key = k).value
DictSet(d, k, v) == {x \in d : x.key # k} \cup {[key |-> k, value |-> v]}

----------------------------------------------------------------------------
(* Group sessions.                                                         *)

\* A save that replaces the rows of the room by the new one
save_inbound_group_session_replacing(rows, room_id, session) ==
    Append(SelectSeq(rows, LAMBDA row : row.room_id # room_id),
           [room_id |-> room_id, session_id |-> session.id, pickle |-> session])

\* Olm.save_inbound_group_session: one row appended
save_inbound_group_session(rows, room_id, session) ==
    Append(rows, [room_id |-> room_id, session_id |-> session.id, pickle |-> session])

\* Olm.create_group_session: the engine's inbound dict of the room and the
\* table after registering a session made from session_key under session_id.
create_group_session_result(e, room_id, session_id, key) ==
    LET session == InboundGroupSession(key)
    IN [inbound |-> [inbound_group_sessions[e] EXCEPT
                        ![room_id] = DictSet(@, session_id, session)],
        rows |-> save_inbound_group_session(db_inbound_group_sessions[e], room_id, session)]

\* An outbound session made without its inbound counterpart
create_outbound_group_session_unregistered(e, room_id) ==
    [outbound |-> [outbound_group_sessions[e] EXCEPT
                      ![room_id] = Some(OutboundGroupSession(e, group_ids[e] + 1))],
     inbound |-> inbound_group_sessions[e],
     rows |-> db_inbound_group_sessions[e]]

\* Olm.create_outbound_group_session
create_outbound_group_session_result(e, room_id) ==
    LET session == OutboundGroupSession(e, group_ids[e] + 1)
        made == create_group_session_result(e, room_id, session.id, session_key(session))
    IN [outbound |-> [outbound_group_sessions[e] EXCEPT ![room_id] = Some(session)],
        inbound |-> made.inbound,
        rows |-> made.rows]

----------------------------------------------------------------------------
(* Key distribution.                                                       *)

\* The (user, device) pairs in the order the loops of share_group_session
\* visit them; users that are not in self.devices are skipped.
RECURSIVE Visits(_)
Visits(users) ==
    IF users = <<>> THEN <<>>
    ELSE LET u == Head(users)
         IN (IF u \in DOMAIN devices
             THEN [i \in DOMAIN devices[u] |-> [user |-> u, key |-> devices[u][i]]]
             ELSE <<>>) \o Visits(Tail(users))

\* The skip of "this device": the loop compares the device id alone.
IsOwnDevice(e, u, key) == key.device_id = device_id(e)

\* A payload whose key is exported one message too late
KeySharePayloadLate(e, room_id, own_id, group_session, u, key) ==
    [type |-> "m.room_key",
     content |-> [algorithm |-> "m.megolm.v1.aes-sha2",
                  room_id |-> room_id,
                  session_id |-> group_session.id,
                  session_key |-> [id |-> group_session.id,
                                   index |-> group_session.message_index + 1],
                  chain_index |-> group_session.message_index + 1],
     sender |-> own_id,
     sender_device |-> device_id(e),
     keys |-> [ed25519 |-> identity_keys(e).ed25519],
     recipient |-> u,
     recipient_keys |-> [ed25519 |-> key.keys["ed25519"]]]

\* The m.room_key payload of one recipient
KeySharePayload(e, room_id, own_id, group_session, u, key) ==
    [type |-> "m.room_key",
     content |-> [algorithm |-> "m.megolm.v1.aes-sha2",
                  room_id |-> room_id,
                  session_id |-> group_session.id,
                  session_key |-> session_key(group_session),
                  chain_index |-> group_session.message_index],
     sender |-> own_id,
     sender_device |-> device_id(e),
     keys |-> [ed25519 |-> identity_keys(e).ed25519],
     recipient |-> u,
     recipient_keys |-> [ed25519 |-> key.keys["ed25519"]]]

OlmDict(e, key, olm_message) ==
    [algorithm |-> "m.olm.v1.curve25519-aes-sha2",
     sender_key |-> identity_keys(e).curve25519,
     ciphertext |-> [key |-> key.keys["curve25519"],
                     type |-> IF olm_message.mtype = "prekey" THEN 0 ELSE 1,
                     body |-> olm_message]]

\* The set of to_device_dict["messages"] entries after one more assignment
MessagesSet(messages, u, d, olm_dict) ==
    {m \in messages : ~(m.user = u /\ m.device = d)}
        \cup {[user |-> u, device |-> d, olm |-> olm_dict]}

\* Whether the trust check of the loop lets the device through
TrustCheck(e, key) == InTrustDb(trust_db[e], key)

\* The loops encrypting with the newest session of each device
RECURSIVE ShareLoopNewest(_, _, _, _, _, _, _)
ShareLoopNewest(e, room_id, own_id, group_session, visits, sess, messages) ==
    IF visits = <<>> THEN [raised |-> FALSE, sess |-> sess, messages |-> messages]
    ELSE LET u == Head(visits).user
             key == Head(visits).key
             p == <<u, key.device_id>>
             rest == Tail(visits)
         IN IF IsOwnDevice(e, u, key)
            THEN ShareLoopNewest(e, room_id, own_id, group_session, rest, sess, messages)
            ELSE IF sess[p] = <<>>
            THEN ShareLoopNewest(e, room_id, own_id, group_session, rest, sess, messages)
            ELSE IF ~TrustCheck(e, key)
            THEN [raised |-> TRUE, sess |-> sess, messages |-> messages]
            ELSE LET enc == SessionEncrypt(sess[p][Len(sess[p])],
                                _to_json(KeySharePayload(e, room_id, own_id,
                                                         group_session, u, key)))
                 IN ShareLoopNewest(e, room_id, own_id, group_session, rest,
                              [sess EXCEPT ![p][Len(sess[p])] = enc.session],
                              MessagesSet(messages, u, key.device_id,
                                          OlmDict(e, key, enc.message)))

\* The loops of share_group_session over the pairs still to visit: raised
\* tells whether OlmTrustError ended them, sess is self.sessions at that
\* point (sessions encrypt in place), messages the map built so far.
RECURSIVE ShareLoop(_, _, _, _, _, _, _)
ShareLoop(e, room_id, own_id, group_session, visits, sess, messages) ==
    IF visits = <<>> THEN [raised |-> FALSE, sess |-> sess, messages |-> messages]
    ELSE LET u == Head(visits).user
             key == Head(visits).key
             p == <<u, key.device_id>>
             rest == Tail(visits)
         IN IF IsOwnDevice(e, u, key)
            THEN ShareLoop(e, room_id, own_id, group_session, rest, sess, messages)
            ELSE IF sess[p] = <<>>
            THEN ShareLoop(e, room_id, own_id, group_session, rest, sess, messages)
            ELSE IF ~TrustCheck(e, key)
            THEN [raised |-> TRUE, sess |-> sess, messages |-> messages]
            ELSE LET enc == SessionEncrypt(sess[p][1],
                                _to_json(KeySharePayload(e, room_id, own_id,
                                                         group_session, u, key)))
                 IN ShareLoop(e, room_id, own_id, group_session, rest,
                              [sess EXCEPT ![p][1] = enc.session],
                              MessagesSet(messages, u, key.device_id,
                                          OlmDict(e, key, enc.message)))

\* Olm.share_group_session, on a room that has an outbound session
share_group_session_result(e, room_id, own_id, group_session, users) ==
    ShareLoop(e, room_id, own_id, group_session, Visits(users), sessions[e], {})

\* No session counter beyond the bound
WithinIdx(sess) == \A p \in Pairs : \A i \in DOMAIN sess[p] : sess[p][i].snd <= MaxIdx

\* Olm.create_outbound_group_session
create_outbound_group_session(e, room_id) ==
    /\ group_ids[e] < MaxGroupSessions
    /\ LET r == create_outbound_group_session_result(e, room_id)
       IN /\ outbound_group_sessions' = [outbound_group_sessions EXCEPT ![e] = r.outbound]
          /\ inbound_group_sessions' = [inbound_group_sessions EXCEPT ![e] = r.inbound]
          /\ db_inbound_group_sessions' = [db_inbound_group_sessions EXCEPT ![e] = r.rows]
    /\ group_ids' = [group_ids EXCEPT ![e] = @ + 1]
    /\ last' = Op("create_outbound_group_session", e, "None")
    /\ UNCHANGED <<devices, key_store, trust, pairwise, shared_sessions, sent>>
    /\ returned' = [returned EXCEPT ![e][room_id] = None]

\* group_encrypt distributing the keys on every call
NeedsShareAlways(e, session) == TRUE

\* The test of group_encrypt that decides whether the keys go out
NeedsShare(e, session) == session.id \notin Range(shared_sessions[e])

\* Olm.group_encrypt: what it returns (or that it raised) and the engine's
\* fields when it ends.
group_encrypt_result(e, room_id, plaintext_dict, own_id, users) ==
    LET fresh == outbound_group_sessions[e][room_id] = None
        made == create_outbound_group_session_result(e, room_id)
        outbound == IF fresh THEN made.outbound ELSE outbound_group_sessions[e]
        session == outbound[room_id][1]
        share == NeedsShare(e, session)
        r == IF share
             THEN share_group_session_result(e, room_id, own_id, session, users)
             ELSE [raised |-> FALSE, sess |-> sessions[e], messages |-> {}]
        enc == GroupSessionEncrypt(session,
                   _to_json([content |-> plaintext_dict, room_id |-> room_id]))
        payload_dict == [algorithm |-> "m.megolm.v1.aes-sha2",
                         sender_key |-> identity_keys(e).curve25519,
                         ciphertext |-> enc.ciphertext,
                         session_id |-> session.id,
                         device_id |-> device_id(e)]
    IN [raised |-> r.raised,
        fresh |-> fresh,
        inbound |-> IF fresh THEN made.inbound ELSE inbound_group_sessions[e],
        rows |-> IF fresh THEN made.rows ELSE db_inbound_group_sessions[e],
        ids |-> IF fresh THEN group_ids[e] + 1 ELSE group_ids[e],
        sess |-> r.sess,
        outbound |-> IF r.raised THEN outbound
                     ELSE [outbound EXCEPT ![room_id] = Some(enc.session)],
        shared |-> IF ~r.raised /\ share THEN Append(shared_sessions[e], session.id)
                   ELSE shared_sessions[e],
        payload |-> IF r.raised THEN None ELSE Some(payload_dict),
        to_device |-> IF ~r.raised /\ share THEN Some(r.messages) ELSE None]

\* What the caller keeps of a call that returned: the session id and message
\* index of the ciphertext, and the key distribution that came with it.
Returned(r) ==
    [session_id |-> r.payload[1].session_id,
     index |-> r.payload[1].ciphertext.index,
     to_device |-> r.to_device]

\* Olm.group_encrypt, the transport taking what it returns when transmit holds
group_encrypt(e, room_id, plaintext_dict, own_id, users, transmit) ==
    LET r == group_encrypt_result(e, room_id, plaintext_dict, own_id, users)
    IN /\ r.fresh => group_ids[e] < MaxGroupSessions
       /\ WithinIdx(r.sess)
       /\ r.raised \/ r.outbound[room_id][1].message_index <= MaxIdx
       /\ inbound_group_sessions' = [inbound_group_sessions EXCEPT ![e] = r.inbound]
       /\ db_inbound_group_sessions' = [db_inbound_group_sessions EXCEPT ![e] = r.rows]
       /\ group_ids' = [group_ids EXCEPT ![e] = r.ids]
       /\ sessions' = [sessions EXCEPT ![e] = r.sess]
       /\ outbound_group_sessions' = [outbound_group_sessions EXCEPT ![e] = r.outbound]
       /\ shared_sessions' = [shared_sessions EXCEPT ![e] = r.shared]
       /\ returned' = IF r.raised THEN returned
                      ELSE [returned EXCEPT ![e][room_id] = Some(Returned(r))]
       /\ sent' = IF transmit /\ ~r.raised
                  THEN sent \cup {[eng |-> e, room_id |-> room_id,
                                   plaintext_dict |-> plaintext_dict,
                                   payload |-> r.payload[1], to_device |-> r.to_device]}
                  ELSE sent
       /\ last' = Op("group_encrypt", e, IF r.raised THEN "OlmTrustError" ELSE "ok")
       /\ UNCHANGED <<devices, key_store, trust, account, olmaccount, olmsessions>>

----------------------------------------------------------------------------
(* Pairwise sessions.                                                      *)

\* The identity key create_session finds for (user_id, device_id): None
\* when the device is not in self.devices.
IdKey(user_id, dev_id) ==
    IF user_id \in DOMAIN devices
          /\ \E i \in DOMAIN devices[user_id] : devices[user_id][i].device_id = dev_id
    THEN LET i == CHOOSE i \in DOMAIN devices[user_id] :
                      /\ devices[user_id][i].device_id = dev_id
                      /\ \A j \in 1..(i - 1) : devices[user_id][j].device_id # dev_id
         IN Some(devices[user_id][i].keys["curve25519"])
    ELSE None

\* A save_session that writes no row
save_session_skipped(rows, user_id, dev_id, session) == rows

\* Olm.save_session: one row appended
save_session(rows, user_id, dev_id, session) ==
    Append(rows, [user |-> user_id, device_id |-> dev_id,
                  session_id |-> session.sec, pickle |-> session])

\* The key server hands a one-time key of a device to a claimant once.
Unclaimed(e, p, one_time_key) ==
    \A i \in DOMAIN sessions[e][p] :
        sessions[e][p][i].role = "out" => sessions[e][p][i].sec.otk # one_time_key

\* Olm.create_session; without an identity key OutboundSession raises and
\* nothing is stored.
create_session(e, user_id, dev_id, one_time_key) ==
    LET id_key == IdKey(user_id, dev_id)
        p == <<user_id, dev_id>>
    IN IF id_key = None
       THEN /\ last' = Op("create_session", e, "ValueError")
            /\ UNCHANGED <<devices, key_store, trust, pairwise, group, sent, returned>>
       ELSE LET session == OutboundSession(e, id_key[1], one_time_key,
                                           Len(sessions[e][p]))
            IN /\ Unclaimed(e, p, one_time_key)
               /\ olmaccount' = [olmaccount EXCEPT ![e] = account[e]]
               /\ sessions' = [sessions EXCEPT ![e][p] = Append(@, session)]
               /\ olmsessions' = [olmsessions EXCEPT
                                     ![e] = save_session(@, user_id, dev_id, session)]
               /\ last' = Op("create_session", e, "None")
               /\ UNCHANGED <<devices, key_store, trust, account, group, sent, returned>>

\* The inner loop of get_missing_sessions for one user: the ids of the
\* user's devices, in list order, that are not skipped as this device and
\* have no session in sess.
MissingDevices(e, sess, u) ==
    LET missing == SelectSeq(devices[u],
                       LAMBDA key : /\ key.device_id # device_id(e)
                                    /\ sess[<<u, key.device_id>>] = <<>>)
    IN [i \in DOMAIN missing |-> missing[i].device_id]

\* Olm.get_missing_sessions on the sessions sess: self.devices[user] raises
\* KeyError for a user that is not in self.devices; otherwise the mapping
\* holds an entry (user, device ids) for each user with a device to report.
get_missing_sessions_result(e, sess, users) ==
    IF \E i \in DOMAIN users : users[i] \notin DOMAIN devices
    THEN [res |-> "KeyError", missing |-> {}]
    ELSE [res |-> "ok",
          missing |-> {[user |-> u, devices |-> Range(MissingDevices(e, sess, u))] :
                          u \in {v \in Range(users) : MissingDevices(e, sess, v) # <<>>}}]

\* Olm.get_missing_sessions
get_missing_sessions(e, users) ==
    /\ last' = Op("get_missing_sessions", e,
                  get_missing_sessions_result(e, sessions[e], users).res)
    /\ UNCHANGED <<devices, key_store, trust, pairwise, group, sent, returned>>

----------------------------------------------------------------------------
(* Decryption of a pairwise message.                                       *)

\* The sessions the loops of decrypt visit, as (device id, index): the
\* devices in dict order, the sessions of each in list order.
RECURSIVE Positions(_, _, _)
Positions(e, sender, order) ==
    IF order = <<>> THEN <<>>
    ELSE [i \in DOMAIN sessions[e][<<sender, Head(order)>>] |-> <<Head(order), i>>]
            \o Positions(e, sender, Tail(order))

\* Whether decrypt passes over a session without trying it
SkipsSession(session, message) ==
    message.mtype = "prekey" /\ ~SessionMatches(session, message)

\* The loops of decrypt over the positions still to visit: found tells
\* whether a session decrypted the message, tried lists the sessions whose
\* decrypt was called, in order.
RECURSIVE DecryptLoop(_, _, _, _, _)
DecryptLoop(e, sender, message, positions, tried) ==
    IF positions = <<>> THEN [found |-> FALSE, tried |-> tried, at |-> <<>>]
    ELSE LET pos == Head(positions)
             session == sessions[e][<<sender, pos[1]>>][pos[2]]
         IN IF SkipsSession(session, message)
            THEN DecryptLoop(e, sender, message, Tail(positions), tried)
            ELSE IF CanDecrypt(session, message)
            THEN [found |-> TRUE, tried |-> Append(tried, pos), at |-> pos]
            ELSE DecryptLoop(e, sender, message, Tail(positions), Append(tried, pos))

\* The engine's fields when decrypt ends without having changed anything
Untouched(e) ==
    [sess |-> sessions[e], otks |-> account[e], saved_account |-> FALSE,
     rows |-> olmsessions[e]]

\* Olm.decrypt after the loops: _create_session is called whatever the
\* message (attempted), then decryption with the new session and its
\* registration under the payload's sender_device.
DecryptFallback(e, sender, sender_key, message, tried) ==
    LET base == [Untouched(e) EXCEPT !.sess = sessions[e]]
        none == [res |-> "None", plain |-> None, tried |-> tried, attempted |-> FALSE,
                 created |-> FALSE, state |-> base]
    IN IF ~CanCreateInbound(e, account[e], sender_key, message)
       THEN [none EXCEPT !.attempted = TRUE]
       ELSE LET session == InboundSession(message)
                consumed == [base EXCEPT !.otks = @ \ {message.sec.otk},
                                         !.saved_account = TRUE]
                made == [none EXCEPT !.attempted = TRUE, !.created = TRUE,
                                     !.state = consumed]
            IN IF ~CanDecrypt(session, message) THEN made
               ELSE IF ~message.body.json THEN [made EXCEPT !.res = "ValueError"]
               ELSE IF "sender_device" \notin DOMAIN message.body.dict
               THEN [made EXCEPT !.res = "KeyError"]
               ELSE LET dev == message.body.dict.sender_device
                        used == SessionDecrypt(session, message)
                    IN [made EXCEPT
                          !.res = "ok",
                          !.plain = Some(message.body.dict),
                          !.state = [consumed EXCEPT
                              !.sess = [@ EXCEPT ![<<sender, dev>>] = Append(@, used)],
                              !.rows = save_session(@, sender, dev, used)]]

\* Olm.decrypt: what it returns (res "ok" with the parsed plaintext, res
\* "None", or the exception that escapes it), the sessions it tried, whether
\* it called _create_session, and the engine's fields when it ends.
decrypt_result(e, sender, sender_key, message, order) ==
    LET loop == DecryptLoop(e, sender, message, Positions(e, sender, order), <<>>)
    IN IF loop.found
       THEN LET p == <<sender, loop.at[1]>>
                used == SessionDecrypt(sessions[e][p][loop.at[2]], message)
                state == [Untouched(e) EXCEPT !.sess[p][loop.at[2]] = used]
            IN [res |-> IF message.body.json THEN "ok" ELSE "ValueError",
                plain |-> IF message.body.json THEN Some(message.body.dict) ELSE None,
                tried |-> loop.tried, attempted |-> FALSE, created |-> FALSE,
                state |-> state]
       ELSE DecryptFallback(e, sender, sender_key, message, loop.tried)

\* The orders in which self.sessions[sender] can list the sender's devices
DeviceOrders(e, sender) ==
    Perms({d \in DevIds : sessions[e][<<sender, d>>] # <<>>})

\* Olm.decrypt
decrypt(e, sender, sender_key, message) ==
    \E order \in DeviceOrders(e, sender) :
        LET r == decrypt_result(e, sender, sender_key, message, order)
        IN /\ sessions' = [sessions EXCEPT ![e] = r.state.sess]
           /\ account' = [account EXCEPT ![e] = r.state.otks]
           /\ olmaccount' = [olmaccount EXCEPT
                                ![e] = IF r.state.saved_account THEN r.state.otks ELSE @]
           /\ olmsessions' = [olmsessions EXCEPT ![e] = r.state.rows]
           /\ last' = Op("decrypt", e, r.res)
           /\ UNCHANGED <<devices, key_store, trust, group, sent, returned>>

----------------------------------------------------------------------------
(* Receiving room keys and room messages.                                  *)

\* Olm.create_group_session
create_group_session(e, room_id, session_id, key) ==
    LET r == create_group_session_result(e, room_id, session_id, key)
    IN /\ inbound_group_sessions' = [inbound_group_sessions EXCEPT ![e] = r.inbound]
       /\ db_inbound_group_sessions' = [db_inbound_group_sessions EXCEPT ![e] = r.rows]
       /\ last' = Op("create_group_session", e, "None")
       /\ UNCHANGED <<devices, key_store, trust, pairwise, outbound_group_sessions,
                      shared_sessions, group_ids, sent, returned>>

\* Olm.group_decrypt on the inbound sessions inbound: the plaintext as the
\* session gives it (a JSON text), or None.
group_decrypt_result(inbound, room_id, session_id, ciphertext) ==
    IF session_id \notin DictKeys(inbound[room_id]) THEN None
    ELSE IF CanGroupDecrypt(DictGet(inbound[room_id], session_id), ciphertext)
    THEN Some(ciphertext.body)
    ELSE None

\* Olm.group_decrypt
group_decrypt(e, room_id, session_id, ciphertext) ==
    LET r == group_decrypt_result(inbound_group_sessions[e], room_id, session_id, ciphertext)
    IN /\ last' = Op("group_decrypt", e, IF r = None THEN "None" ELSE "ok")
       /\ UNCHANGED <<devices, key_store, trust, pairwise, group, sent, returned>>

----------------------------------------------------------------------------
(* The device directory: every device has both keys.                       *)
Dev(u, d) == OlmDevice(u, d, [ed25519 |-> "ed_" \o u \o d, curve25519 |-> "cv_" \o u \o d])

OwnDev(e) == OlmDevice(user(e), device_id(e), identity_keys(e))

\* B and C have one device each.
DirectoryTwoPeers ==
    [u \in UserIds |->
        CASE u = "A" -> <<OwnDev("A")>>
          [] u = "B" -> <<OwnDev("B")>>
          [] u = "C" -> <<Dev("C", "DC")>>]

\* B has a second device whose device id is the one engine A uses.
DirectorySameDeviceId ==
    [u \in {"A", "B"} |->
        CASE u = "A" -> <<OwnDev("A")>>
          [] u = "B" -> <<OwnDev("B"), Dev("B", "DA")>>]

OneTimeKeys == {1, 2}
Rooms == {"r1", "r2"}

InitEngine ==
    /\ account = [e \in Engines |-> OneTimeKeys]
    /\ olmaccount = account
    /\ sessions = [e \in Engines |-> [p \in Pairs |-> <<>>]]
    /\ olmsessions = [e \in Engines |-> <<>>]
    /\ inbound_group_sessions = [e \in Engines |-> [r \in Rooms |-> {}]]
    /\ outbound_group_sessions = [e \in Engines |-> [r \in Rooms |-> None]]
    /\ shared_sessions = [e \in Engines |-> <<>>]
    /\ group_ids = [e \in Engines |-> 0]
    /\ db_inbound_group_sessions = [e \in Engines |-> <<>>]
    /\ returned = [e \in Engines |-> [r \in Rooms |-> None]]
    /\ sent = {}
    /\ last = Op("init", "A", "")

NoKeyStore == key_store = [entries |-> <<>>, file |-> <<>>]

NoTrustFile ==
    /\ trust_db = [e \in Engines |-> <<>>]
    /\ trust_file = [e \in Engines |-> <<>>]

----------------------------------------------------------------------------
(* Restarting an engine from its database.                                 *)

\* The loop of load over the olmsessions rows: each pickle is appended to
\* the list of the row's user and device, in row order.
LoadSessions(rows) ==
    [p \in Pairs |->
        LET mine == SelectSeq(rows, LAMBDA row : <<row.user, row.device_id>> = p)
        IN [i \in DOMAIN mine |-> mine[i].pickle]]

\* The loop of load over the inbound_group_sessions rows: each session is
\* stored under its room and its own id, a later row replacing an earlier.
RECURSIVE LoadInboundGroupSessions(_, _)
LoadInboundGroupSessions(rows, inbound) ==
    IF rows = <<>> THEN inbound
    ELSE LET row == Head(rows)
         IN LoadInboundGroupSessions(Tail(rows),
                [inbound EXCEPT ![row.room_id] = DictSet(@, row.pickle.id, row.pickle)])

\* Olm.__init__ of a new process on an existing database: the fields start
\* empty, load fills account, sessions and inbound group sessions from the
\* tables, and the trust store is read from its file.
load(e) ==
    /\ account' = [account EXCEPT ![e] = olmaccount[e]]
    /\ sessions' = [sessions EXCEPT ![e] = LoadSessions(olmsessions[e])]
    /\ inbound_group_sessions' =
          [inbound_group_sessions EXCEPT
              ![e] = LoadInboundGroupSessions(db_inbound_group_sessions[e],
                                              [r \in Rooms |-> {}])]
    /\ outbound_group_sessions' = [outbound_group_sessions EXCEPT
                                      ![e] = [r \in Rooms |-> None]]
    /\ shared_sessions' = [shared_sessions EXCEPT ![e] = <<>>]
    /\ trust_db' = [trust_db EXCEPT ![e] = _load(trust_file[e])]
    /\ returned' = [returned EXCEPT ![e] = [r \in Rooms |-> None]]
    /\ last' = Op("load", e, "True")
    /\ UNCHANGED <<devices, key_store, trust_file, olmaccount, olmsessions,
                   db_inbound_group_sessions, group_ids, sent>>

----------------------------------------------------------------------------
(* Engine A distributing room keys to the devices of B and C.              *)
Init ==
    /\ devices \in {DirectoryTwoPeers, DirectorySameDeviceId}
    /\ NoTrustFile
    /\ InitEngine
    /\ NoKeyStore

\* The devices of the directory other than the engine's own
Peers(e) == {k \in UNION {Range(devices[u]) : u \in DOMAIN devices} : k # OwnDev(e)}

UserLists == {<<"A", "B", "C">>, <<"C", "B">>, <<"B">>}

Next ==
    \/ \E k \in Peers("A"), otk \in OneTimeKeys :
          /\ otk = Len(sessions["A"][<<k.user_id, k.device_id>>]) + 1
          /\ create_session("A", k.user_id, k.device_id, otk)
    \/ create_session("A", "C", "DB", 1)
    \/ \E k \in Peers("A") : verify_device("A", k)
    \/ \E k \in Peers("A") : unverify_device("A", k)
    \/ create_outbound_group_session("A", "r1")
    \/ \E users \in UserLists : group_encrypt("A", "r1", "p1", "A", users, FALSE)

Spec == Init /\ [][Next]_vars

----------------------------------------------------------------------------
(* Engine A with up to two sessions per peer device, distributing room     *)
(* keys once the devices are verified.                                     *)
InitOldest ==
    /\ devices = DirectoryTwoPeers
    /\ NoTrustFile
    /\ InitEngine
    /\ NoKeyStore

NextOldest ==
    \/ \E k \in Peers("A"), otk \in OneTimeKeys :
          /\ otk = Len(sessions["A"][<<k.user_id, k.device_id>>]) + 1
          /\ create_session("A", k.user_id, k.device_id, otk)
    \/ \E k \in Peers("A") :
          /\ sessions["A"][<<k.user_id, k.device_id>>] # <<>>
          /\ verify_device("A", k)
    \/ /\ returned["A"]["r1"] # None
       /\ create_outbound_group_session("A", "r1")
    \/ \E users \in UserLists : group_encrypt("A", "r1", "p1", "A", users, FALSE)

SpecOldest == InitOldest /\ [][NextOldest]_vars

----------------------------------------------------------------------------
(* Engine A asking which sessions it lacks, setting them up, and           *)
(* distributing room keys.                                                 *)
InitMissing ==
    /\ devices \in {DirectoryTwoPeers, DirectorySameDeviceId}
    /\ NoTrustFile
    /\ InitEngine
    /\ NoKeyStore

NextMissing ==
    \/ \E users \in UserLists : get_missing_sessions("A", users)
    \/ \E k \in Peers("A"), otk \in OneTimeKeys :
          /\ otk = Len(sessions["A"][<<k.user_id, k.device_id>>]) + 1
          /\ create_session("A", k.user_id, k.device_id, otk)
    \/ create_session("A", "C", "DB", 1)
    \/ \E k \in Peers("A") :
          /\ sessions["A"][<<k.user_id, k.device_id>>] # <<>>
          /\ verify_device("A", k)
    \/ \E users \in UserLists : group_encrypt("A", "r1", "p1", "A", users, FALSE)

SpecMissing == InitMissing /\ [][NextMissing]_vars

----------------------------------------------------------------------------
(* Engine A's trust store on its own: devices are verified and unverified, *)
(* also with a fingerprint other than the one on record.                   *)

\* A trusted_devices file as a user may have left it: a comment, a blank
\* line, a record, a record of an unknown key type and a short line.
FileWithNoise ==
    << <<"#", "trusted", "devices">>,
       <<>>,
       <<"B", "DB", "matrix-ed25519", "edB">>,
       <<"B", "DB", "matrix-curve25519", "cvB">>,
       <<"C", "DC">> >>

InitialFiles == {<<>>, FileWithNoise}

\* Devices as the directory reports them, before and after a key change
TrustDevices ==
    {OlmDevice(u, device_id(u), [ed25519 |-> k, curve25519 |-> "cv" \o u]) :
        u \in {"B"}, k \in {"edB", "edB2"}}
    \cup {OlmDevice("C", "DC", [ed25519 |-> k, curve25519 |-> "cvC"]) : k \in {"edC", "edC2"}}

InitTrust ==
    /\ devices = DirectoryTwoPeers
    /\ \E f \in InitialFiles :
          /\ trust_file = [e \in Engines |-> IF e = "A" THEN f ELSE <<>>]
          /\ trust_db = [e \in Engines |-> _load(trust_file[e])]
    /\ InitEngine
    /\ NoKeyStore

NextTrust ==
    \/ \E d \in TrustDevices : verify_device("A", d)
    \/ \E d \in TrustDevices : unverify_device("A", d)

SpecTrust == InitTrust /\ [][NextTrust]_vars

----------------------------------------------------------------------------
(* Engine A's trust store with a process that can die while the file is    *)
(* being written.                                                          *)
NextCrash ==
    \/ NextTrust
    \/ \E d \in TrustDevices : verify_device_crashed("A", d)
    \/ \E d \in TrustDevices : unverify_device_crashed("A", d)

SpecCrash == InitTrust /\ [][NextCrash]_vars

----------------------------------------------------------------------------
(* A KeyStore on its own: keys are added and removed, also under a key     *)
(* value other than the one on record; the file it starts from may hold    *)
(* lines the loader does not take.                                         *)
Keys ==
    {Ed25519Key("B", "DB", "edB"), Ed25519Key("B", "DB", "edB2"),
     Ed25519Key("C", "DC", "edC"), Ed25519Key("C", "DC", "edC2")}

KeyFileWithNoise ==
    << <<"#", "trusted", "keys">>,
       <<>>,
       <<"B", "DB", "matrix-ed25519", "edB", "seen">>,
       <<"C", "DC", "matrix-curve25519", "cvC">>,
       <<"C", "DC", "edC">> >>

KeyFiles == {<<>>, KeyFileWithNoise}

InitKeyStore ==
    /\ devices = DirectoryTwoPeers
    /\ NoTrustFile
    /\ InitEngine
    /\ \E f \in KeyFiles : key_store = [entries |-> KeyStore_load(f), file |-> f]

NextKeyStore ==
    \/ \E key \in Keys : KeyStore_add(key)
    \/ \E key \in Keys : KeyStore_remove(key)

SpecKeyStore == InitKeyStore /\ [][NextKeyStore]_vars

----------------------------------------------------------------------------
(* Engine A receiving pairwise messages from the device of C: pre-key and  *)
(* normal messages of the sessions C's device set up with A's one-time     *)
(* keys, intact or not, with well-formed and malformed payloads, and the   *)
(* answers of C's device on the sessions A set up.                         *)
CurveOfC == Dev("C", "DC").keys["curve25519"]

PayloadFrom(dev) == _to_json([type |-> "m.dummy", sender |-> "C", sender_device |-> dev])
PayloadNoDevice == _to_json([type |-> "m.dummy", sender |-> "C"])
Payloads == {PayloadFrom("DC"), PayloadFrom("DB"), PayloadNoDevice, NotJson}

\* What C's device sends on the sessions it created
ForeignMessages ==
    {[mtype |-> t, role |-> "out", idx |-> i, body |-> b, mac |-> m,
      sec |-> [by |-> CurveOfC, peer |-> identity_keys("A").curve25519,
               otk |-> k, n |-> 0]] :
        t \in {"prekey", "normal"}, i \in {0, 1}, b \in Payloads,
        m \in BOOLEAN, k \in OneTimeKeys}

\* What C's device answers on the sessions engine A created with it
Answers ==
    {[mtype |-> "normal", role |-> "in", idx |-> 0, body |-> b, mac |-> TRUE,
      sec |-> sessions["A"][<<"C", "DC">>][i].sec] :
        b \in {PayloadFrom("DC"), NotJson},
        i \in {j \in DOMAIN sessions["A"][<<"C", "DC">>] :
                  sessions["A"][<<"C", "DC">>][j].role = "out"}}

Incoming == {m \in ForeignMessages : m.mac \/ (m.idx = 0 /\ m.body = PayloadFrom("DC"))}
                \cup Answers

InitDecrypt ==
    /\ devices = DirectoryTwoPeers
    /\ NoTrustFile
    /\ InitEngine
    /\ NoKeyStore

NextDecrypt ==
    \/ /\ sessions["A"][<<"C", "DC">>] = <<>>
       /\ create_session("A", "C", "DC", 1)
    \/ \E m \in Incoming : decrypt("A", "C", CurveOfC, m)

SpecDecrypt == InitDecrypt /\ [][NextDecrypt]_vars

----------------------------------------------------------------------------
(* Engine A being handed the pre-key messages of C's device again and      *)
(* again, also after a restart.  C's device sends one plaintext per        *)
(* session and index: the first message on one-time key 2 is no JSON       *)
(* document and the second lacks sender_device.                            *)
ReplayBody(otk, idx) ==
    CASE otk = 1 -> PayloadFrom("DC")
      [] otk = 2 /\ idx = 0 -> NotJson
      [] otk = 2 /\ idx = 1 -> PayloadNoDevice

ReplayMessages ==
    {m \in ForeignMessages :
        m.mtype = "prekey" /\ m.mac /\ m.body = ReplayBody(m.sec.otk, m.idx)}

\* The answer of C's device on a session engine A created with it
ReplayAnswers == {m \in Answers : m.body = PayloadFrom("DC")}

InitReplay ==
    /\ devices = DirectoryTwoPeers
    /\ NoTrustFile
    /\ InitEngine
    /\ NoKeyStore

NextReplay ==
    \/ /\ \A i \in DOMAIN sessions["A"][<<"C", "DC">>] :
             sessions["A"][<<"C", "DC">>][i].role # "out"
       /\ create_session("A", "C", "DC", 1)
    \/ \E m \in ReplayMessages \cup ReplayAnswers : decrypt("A", "C", CurveOfC, m)
    \/ load("A")

SpecReplay == InitReplay /\ [][NextReplay]_vars

----------------------------------------------------------------------------
(* Engine A creating and receiving sessions, and being restarted from its  *)
(* database.  The room keys it is given come from C's device; the session  *)
(* id of an m.room_key event is a field of its own, next to the key.       *)
GroupIdOfC(n) == [by |-> "C", n |-> n]

ReceivedRoomKeys ==
    {[room_id |-> "r1", session_id |-> GroupIdOfC(1),
      session_key |-> [id |-> GroupIdOfC(n), index |-> 0]] : n \in {1, 2}}

RestartMessages ==
    {m \in ForeignMessages :
        /\ m.mtype = "prekey" /\ m.idx = 0 /\ m.mac /\ m.sec.otk = 1
        /\ m.body \in {PayloadFrom("DC"), NotJson}}

InitRestart ==
    /\ devices = DirectoryTwoPeers
    /\ NoTrustFile
    /\ InitEngine
    /\ NoKeyStore

NextRestart ==
    \/ /\ sessions["A"][<<"C", "DC">>] = <<>>
       /\ create_session("A", "C", "DC", 1)
    \/ \E m \in RestartMessages : decrypt("A", "C", CurveOfC, m)
    \/ create_outbound_group_session("A", "r1")
    \/ group_encrypt("A", "r1", "p1", "A", <<"C">>, FALSE)
    \/ \E k \in ReceivedRoomKeys :
          /\ Len(db_inbound_group_sessions["A"]) < MaxRows
          /\ k.session_id \notin DictKeys(inbound_group_sessions["A"][k.room_id])
          /\ create_group_session("A", k.room_id, k.session_id, k.session_key)
    \/ load("A")

SpecRestart == InitRestart /\ [][NextRestart]_vars

----------------------------------------------------------------------------
(* Two engines and the transport between them: one of them sets up a       *)
(* session with the other's device, verifies it and writes to room r1; the *)
(* other decrypts what the transport hands it.                             *)
Other(e) == IF e = "A" THEN "B" ELSE "A"

DirectoryEngines == [u \in Engines |-> <<OwnDev(u)>>]

Plaintexts == {"p1", "p2"}

\* The engine that writes is the one that acted first
Writes(e) ==
    /\ group_ids[Other(e)] = 0
    /\ trust_db[Other(e)] = <<>>
    /\ \A p \in Pairs : \A i \in DOMAIN sessions[Other(e)][p] :
          sessions[Other(e)][p][i].role # "out"

\* The to-device entries of the fan-outs sent so far that are addressed to e
Envelopes(e) ==
    {[sender |-> user(c.eng), sender_key |-> m.olm.sender_key,
      message |-> m.olm.ciphertext.body] :
        <<c, m>> \in {<<c, m>> \in UNION {{c} \X c.to_device[1] :
                                    c \in {x \in sent : x.to_device # None}} :
                         /\ m.user = user(e)
                         /\ m.device = device_id(e)
                         /\ m.olm.ciphertext.key = identity_keys(e).curve25519}}

\* Whether a session of e has decrypted the message of the envelope
Decrypted(e, env) ==
    \E d \in DevIds : \E i \in DOMAIN sessions[e][<<env.sender, d>>] :
        LET session == sessions[e][<<env.sender, d>>][i]
        IN session.sec = env.message.sec /\ env.message.idx \in session.rcv

\* The m.room_key contents e has received and not yet used
RoomKeys(e) ==
    {k \in {env.message.body.dict.content : env \in {x \in Envelopes(e) : Decrypted(e, x)}} :
        k.session_id \notin DictKeys(inbound_group_sessions[e][k.room_id])}

InitE2E ==
    /\ devices = DirectoryEngines
    /\ NoTrustFile
    /\ InitEngine
    /\ NoKeyStore

NextE2E ==
    \E e \in Engines :
        LET o == Other(e)
            p == <<user(o), device_id(o)>>
        IN \/ /\ Writes(e)
              /\ \E otk \in OneTimeKeys :
                    /\ otk = Len(sessions[e][p]) + 1
                    /\ create_session(e, user(o), device_id(o), otk)
           \/ Writes(e) /\ verify_device(e, OwnDev(o))
           \/ Writes(e) /\ create_outbound_group_session(e, "r1")
           \/ /\ Writes(e)
              /\ Cardinality(sent) < MaxSent
              /\ \E P \in Plaintexts :
                    group_encrypt(e, "r1", P, user(e), <<user(e), user(o)>>, TRUE)
           \/ \E env \in Envelopes(e) :
                 decrypt(e, env.sender, env.sender_key, env.message)
           \/ \E k \in RoomKeys(e) :
                 create_group_session(e, k.room_id, k.session_id, k.session_key)
           \/ \E c \in sent :
                 /\ c.eng = o
                 /\ group_decrypt(e, c.room_id, c.payload.session_id, c.payload.ciphertext)

SpecE2E == InitE2E /\ [][NextE2E]_vars

----------------------------------------------------------------------------
(* Key distribution seen from the caller (engine A, room r1).              *)

\* The devices share_group_session(users) walks over, as (user, device).
Known(users) == {v \in Range(Visits(users)) : TRUE}

\* "This device itself": the engine's own user id and device id.
IsThisDevice(e, key) == key.user_id = user(e) /\ key.device_id = device_id(e)

HasSession(e, key) == sessions[e][<<key.user_id, key.device_id>>] # <<>>

\* What share_group_session returns in the current state
ShareNow(users) ==
    share_group_session_result("A", "r1", "A", outbound_group_sessions["A"]["r1"][1], users)

KeySet(messages) == {<<m.user, m.device>> : m \in messages}

\* C1: share_group_session is fail-closed: whenever a known device of a user
\* in `users`, other than this device itself, has a pairwise session and is
\* not verified, the call raises OlmTrustError and returns no delivery map.
C1_FailClosed ==
    \A users \in UserLists :
        outbound_group_sessions["A"]["r1"] # None =>
            ((\E v \in Known(users) :
                  /\ ~IsThisDevice("A", v.key)
                  /\ HasSession("A", v.key)
                  /\ ~InTrustDb(trust_db["A"], v.key))
             => ShareNow(users).raised)

\* C2: when share_group_session succeeds, the keys of the delivery map are
\* exactly the (user, device) with user in `users`, device known, device
\* not this device itself, and at least one pairwise session.
C2_DeliveryKeys ==
    \A users \in UserLists :
        (outbound_group_sessions["A"]["r1"] # None /\ ~ShareNow(users).raised) =>
            KeySet(ShareNow(users).messages) =
                {<<v.user, v.key.device_id>> : v \in
                    {w \in Known(users) : ~IsThisDevice("A", w.key) /\ HasSession("A", w.key)}}

\* C3: a group_encrypt that aborts with a trust violation leaves the engine
\* as it was: the group-session registries, the persisted inbound rows, the
\* shared-session list and every pairwise session.
C3_BlockedNoEffects ==
    [][\A users \in UserLists :
          (/\ group_encrypt_result("A", "r1", "p1", "A", users).raised
           /\ group_encrypt("A", "r1", "p1", "A", users, FALSE))
          => UNCHANGED <<outbound_group_sessions, inbound_group_sessions,
                         db_inbound_group_sessions, shared_sessions, sessions>>]_vars

\* C4: of two successive group_encrypt calls that return on a room, with no
\* create_outbound_group_session between them, the second uses the same
\* session id, returns no key distribution, and has a greater message index.
C4_SecondCall ==
    [][\A users \in UserLists :
          LET r == group_encrypt_result("A", "r1", "p1", "A", users)
          IN (/\ returned["A"]["r1"] # None
              /\ ~r.raised
              /\ group_encrypt("A", "r1", "p1", "A", users, FALSE))
             => /\ Returned(r).session_id = returned["A"]["r1"][1].session_id
                /\ Returned(r).to_device = None
                /\ Returned(r).index > returned["A"]["r1"][1].index]_vars

\* Reached: a second call has returned on the session of the first.
C4_Witness ==
    /\ last = Op("group_encrypt", "A", "ok")
    /\ returned["A"]["r1"] # None
    /\ returned["A"]["r1"][1].index >= 1
    /\ returned["A"]["r1"][1].to_device = None

----------------------------------------------------------------------------
(* The trust store of engine A.                                            *)

\* The store holds a record of the device's (user, device) with another key.
OtherFingerprint(entries, device) ==
    \E i \in DOMAIN entries :
        /\ entries[i].user_id = device.user_id
        /\ entries[i].device_id = device.device_id
        /\ entries[i].key # device.keys["ed25519"]

\* C9: verify_device of a device that is verified under another ed25519
\* fingerprint raises OlmTrustError and leaves the store as it was, in
\* memory and on file.
C9_ChangedFingerprint ==
    [][\A d \in TrustDevices :
          (OtherFingerprint(trust_db["A"], d) /\ verify_device("A", d))
          => /\ last'.res = "OlmTrustError"
             /\ UNCHANGED <<trust_db, trust_file>>]_vars

\* C10: verify_device of a device that is verified with the same fingerprint
\* returns False and changes neither the records nor the file; of a device
\* the store has no record of under any fingerprint it returns True, and the
\* device is verified afterwards, in memory and in the file.
C10_VerifyIdempotent ==
    [][\A d \in TrustDevices :
          verify_device("A", d) =>
             IF InTrustDb(trust_db["A"], d)
             THEN /\ last'.res = "False"
                  /\ UNCHANGED <<trust_db, trust_file>>
             ELSE OtherFingerprint(trust_db["A"], d)
                  \/ /\ last'.res = "True"
                     /\ InTrustDb(trust_db'["A"], d)
                     /\ InTrustDb(_load(trust_file'["A"]), d)]_vars

\* Reached: a verified device was verified once more.
C10_Witness ==
    /\ last = Op("verify_device", "A", "False")
    /\ \E d \in TrustDevices : InTrustDb(trust_db["A"], d)
    /\ trust_file["A"] # <<>>

----------------------------------------------------------------------------
(* The round trip between two engines.                                     *)

\* The entries of a fan-out addressed to the device of engine e
EntryFor(messages, e) == {m \in messages : m.user = user(e) /\ m.device = device_id(e)}

\* The text group_encrypt encrypts for a plaintext and a room
WithRoom(plaintext_dict, room_id) == _to_json([content |-> plaintext_dict, room_id |-> room_id])

\* Whether a call of group_encrypt on the room would distribute the keys
Unshared(e, room_id) ==
    IF outbound_group_sessions[e][room_id] = None THEN TRUE
    ELSE NeedsShare(e, outbound_group_sessions[e][room_id][1])

\* The envelope the transport makes of a to-device entry sent by engine o
EnvelopeOf(o, m) ==
    [sender |-> user(o), sender_key |-> m.olm.sender_key, message |-> m.olm.ciphertext.body]

----------------------------------------------------------------------------
(* decrypt on engine A, messages of C.                                     *)

SessionAt(pos) == sessions["A"][<<"C", pos[1]>>][pos[2]]

\* C6: when some session of the sender can decrypt the message, decrypt
\* returns the parsed plaintext, the last session it tried is the first one
\* in visiting order that can decrypt, it does not call _create_session, and
\* the one-time keys, the number of sessions and the stored rows are as
\* before.
C6_FirstSuccessWins ==
    \A m \in Incoming : \A order \in DeviceOrders("A", "C") :
        LET positions == Positions("A", "C", order)
            can == {i \in DOMAIN positions : CanDecrypt(SessionAt(positions[i]), m)}
            r == decrypt_result("A", "C", CurveOfC, m, order)
        IN can # {} =>
              LET j == CHOOSE i \in can : \A k \in can : i <= k
              IN /\ r.res = "ok"
                 /\ r.plain = Some(m.body.dict)
                 /\ r.tried # <<>>
                 /\ r.tried[Len(r.tried)] = positions[j]
                 /\ Range(r.tried) \subseteq {positions[i] : i \in 1..j}
                 /\ ~r.attempted
                 /\ r.state.otks = account["A"]
                 /\ ~r.state.saved_account
                 /\ r.state.rows = olmsessions["A"]
                 /\ \A p \in Pairs : Len(r.state.sess[p]) = Len(sessions["A"][p])

\* C7: a normal (continuation) message of a sender without any session
\* gives None and _create_session is not called.
C7_ContinuationNoCreate ==
    \A m \in Incoming : \A order \in DeviceOrders("A", "C") :
        LET r == decrypt_result("A", "C", CurveOfC, m, order)
        IN (m.mtype = "normal" /\ \A d \in DevIds : sessions["A"][<<"C", d>>] = <<>>)
           => r.res = "None" /\ ~r.attempted

\* C8: when no existing session decrypts the message, decrypt returns the
\* plaintext or None; no exception leaves it.
C8_FallbackNeverRaises ==
    \A m \in Incoming : \A order \in DeviceOrders("A", "C") :
        LET positions == Positions("A", "C", order)
            r == decrypt_result("A", "C", CurveOfC, m, order)
        IN ~DecryptLoop("A", "C", m, positions, <<>>).found => r.res \in {"ok", "None"}

----------------------------------------------------------------------------
(* The KeyStore.                                                           *)

\* Some record of the key's device holds another key value
Conflicts(entries, key) ==
    \E i \in DOMAIN entries :
        /\ entries[i].user_id = key.user_id
        /\ entries[i].device_id = key.device_id
        /\ entries[i].key # key.key

\* The lines the loader takes: not blank, not a comment, four fields or
\* more, the ed25519 tag in the third.
IsValidLine(line) ==
    /\ line # <<>>
    /\ line[1] # "#"
    /\ Len(line) >= 4
    /\ line[3] = "matrix-ed25519"

RecordOfLine(line) == Ed25519Key(line[1], line[2], line[4])

\* C11: KeyStore.add of a key whose device is on record under another key
\* value raises OlmTrustError and leaves the entries and the file as they
\* were; every record held before is still reported by check.
C11_ConflictRejected ==
    [][\A key \in Keys :
          (KeyStore_add(key) /\ Conflicts(key_store.entries, key))
          => /\ last'.res = "OlmTrustError"
             /\ UNCHANGED key_store
             /\ \A x \in Range(key_store.entries) :
                   KeyStore_check(key_store'.entries, x)]_vars

\* Reached: an add was refused while the store held a record.
C11_Witness ==
    /\ last.op = "KeyStore.add"
    /\ last.res = "OlmTrustError"
    /\ Conflicts(key_store.entries, last.eng)

\* C12: KeyStore.add of a key that is in the store returns False and leaves
\* the entries unchanged; of a key that is not, returns True and the key is
\* in the entries once.
C12_AddIfAbsent ==
    [][\A key \in Keys :
          (KeyStore_add(key) /\ ~Conflicts(key_store.entries, key))
          => IF KeyStore_check(key_store.entries, key)
             THEN /\ last'.res = "False"
                  /\ key_store'.entries = key_store.entries
             ELSE /\ last'.res = "True"
                  /\ Cardinality({i \in DOMAIN key_store'.entries :
                                     key_store'.entries[i] = key}) = 1]_vars

\* C13: after KeyStore.remove(key) the key is not reported by check and
\* get_key finds no record of its device, in the entries and in the file
\* read back.
C13_RemoveForgets ==
    [][\A key \in Keys :
          KeyStore_remove(key)
          => \A entries \in {key_store'.entries, KeyStore_load(key_store'.file)} :
                /\ ~KeyStore_check(entries, key)
                /\ get_key(entries, key.user_id, key.device_id) = None]_vars

\* C14: a file loads to the records of its valid lines, in order, and after
\* every add and remove the file read back gives the entries in memory.
C14_RoundTrip ==
    /\ \A f \in KeyFiles :
          LET valid == SelectSeq(f, IsValidLine)
          IN KeyStore_load(f) = [i \in DOMAIN valid |-> RecordOfLine(valid[i])]
    /\ KeyStore_load(key_store.file) = key_store.entries

\* Reached: a store that started from a file with malformed lines has
\* written its entries after an add.
C14_Witness ==
    /\ last.op = "KeyStore.add"
    /\ last.res = "True"
    /\ Len(key_store.entries) >= 2
    /\ key_store.file = KeyStore_save(key_store.entries)
    /\ Ed25519Key("B", "DB", "edB") \in Range(key_store.entries)
    /\ Ed25519Key("C", "DC", "edC") \in Range(key_store.entries)

----------------------------------------------------------------------------
(* The file of engine A's trust store.                                     *)

\* The records a file holds
Records(file) == Range(_load(file))

\* C15: whenever the process stops inside verify_device or unverify_device,
\* the file holds the complete record set of before the call or the
\* complete record set the call was writing.
C15_AtomicReplace ==
    [][\A d \in TrustDevices :
          /\ verify_device_crashed("A", d)
             => Records(trust_file'["A"]) \in
                   {Records(trust_file["A"])}
                      \cup {Range(r.entries) : r \in verify_device_results("A", d)}
          /\ unverify_device_crashed("A", d)
             => Records(trust_file'["A"]) \in
                   {Records(trust_file["A"]),
                    Range(DeviceStoreRemove(trust_db["A"], d).entries)}]_vars

----------------------------------------------------------------------------
(* The list of shared session ids of engine A.                             *)

IsPrefix(s, t) == Len(s) <= Len(t) /\ SubSeq(t, 1, Len(s)) = s

NoRepeats(s) == \A i, j \in DOMAIN s : s[i] = s[j] => i = j

\* C16: shared_sessions never holds an id twice and only grows; an id gets
\* in only on a group_encrypt that returns a fan-out for that id; and a
\* group_encrypt that returns while the room's session is not yet shared
\* (as after a call that ended in OlmTrustError) returns the fan-out for
\* that same session id and marks it shared.
C16_SharedRegistry ==
    [][LET old == shared_sessions["A"]
           new == shared_sessions'["A"]
           before == outbound_group_sessions["A"]["r1"]
           ret == returned'["A"]["r1"]
       IN /\ NoRepeats(new)
          /\ IsPrefix(old, new)
          /\ new # old
             => /\ last' = Op("group_encrypt", "A", "ok")
                /\ new = Append(old, ret[1].session_id)
                /\ ret[1].to_device # None
          /\ last' = Op("group_encrypt", "A", "OlmTrustError") => new = old
          /\ (/\ last' = Op("group_encrypt", "A", "ok")
              /\ before # None
              /\ before[1].id \notin Range(old))
             => /\ ret[1].session_id = before[1].id
                /\ ret[1].to_device # None
                /\ before[1].id \in Range(new)]_vars

\* Reached: the only fan-out so far came after a blocked attempt on the same
\* session (the session with B's device has encrypted twice).
C16_Witness ==
    /\ last = Op("group_encrypt", "A", "ok")
    /\ group_ids["A"] = 1
    /\ Len(shared_sessions["A"]) = 1
    /\ returned["A"]["r1"] # None
    /\ returned["A"]["r1"][1].to_device # None
    /\ sessions["A"][<<"B", "DB">>] # <<>>
    /\ sessions["A"][<<"B", "DB">>][1].snd = 2

----------------------------------------------------------------------------
(* The fallback of decrypt on engine A.                                    *)

\* C17: when no existing session decrypts the message and decrypt returns
\* the plaintext through a new inbound session: one one-time key is gone
\* from the account and the account is saved; the new session is the last
\* of the list of (sender, sender_device of the payload), the rest of that
\* list and every other list being as before; one row, of that session
\* under that user and device, is appended to the olmsessions table.
C17_FallbackEffects ==
    \A m \in Incoming : \A order \in DeviceOrders("A", "C") :
        LET positions == Positions("A", "C", order)
            r == decrypt_result("A", "C", CurveOfC, m, order)
            p == <<"C", r.plain[1].sender_device>>
            old == sessions["A"]
            new == r.state.sess
        IN (~DecryptLoop("A", "C", m, positions, <<>>).found /\ r.res = "ok")
           => /\ r.state.otks = account["A"] \ {m.sec.otk}
              /\ Cardinality(account["A"] \ r.state.otks) = 1
              /\ r.state.saved_account
              /\ Len(new[p]) = Len(old[p]) + 1
              /\ SubSeq(new[p], 1, Len(old[p])) = old[p]
              /\ new[p][Len(new[p])].sec = m.sec
              /\ new[p][Len(new[p])].role = "in"
              /\ \A q \in Pairs \ {p} : new[q] = old[q]
              /\ Len(r.state.rows) = Len(olmsessions["A"]) + 1
              /\ SubSeq(r.state.rows, 1, Len(olmsessions["A"])) = olmsessions["A"]
              /\ LET row == r.state.rows[Len(r.state.rows)]
                 IN /\ row.user = "C"
                    /\ row.device_id = p[2]
                    /\ row.pickle = new[p][Len(new[p])]

\* Reached: decrypt has returned a plaintext through a session it created
\* and stored.
C17_Witness ==
    /\ last = Op("decrypt", "A", "ok")
    /\ account["A"] # OneTimeKeys
    /\ olmaccount["A"] = account["A"]
    /\ \E p \in Pairs :
          /\ sessions["A"][p] # <<>>
          /\ sessions["A"][p][Len(sessions["A"][p])].role = "in"
          /\ olmsessions["A"] # <<>>
          /\ olmsessions["A"][Len(olmsessions["A"])].pickle
                = sessions["A"][p][Len(sessions["A"][p])]

----------------------------------------------------------------------------
(* Outbound group sessions and their inbound counterparts.                 *)

\* C18: a room has at most one outbound group session, and for every room
\* with one the inbound sessions of the room hold a session under the same
\* id, a row of it is in the inbound_group_sessions table, and group_decrypt
\* of what the outbound session encrypts next does not return None.
C18_OutboundHasInbound ==
    \A e \in Engines : \A room \in Rooms :
        LET out == outbound_group_sessions[e][room]
        IN /\ Len(out) <= 1
           /\ out # None
              => /\ out[1].id \in DictKeys(inbound_group_sessions[e][room])
                 /\ DictGet(inbound_group_sessions[e][room], out[1].id).id = out[1].id
                 /\ \E i \in DOMAIN db_inbound_group_sessions[e] :
                       /\ db_inbound_group_sessions[e][i].room_id = room
                       /\ db_inbound_group_sessions[e][i].session_id = out[1].id
                 /\ group_decrypt_result(inbound_group_sessions[e], room, out[1].id,
                        GroupSessionEncrypt(out[1], WithRoom("p1", room)).ciphertext)
                      = Some(WithRoom("p1", room))

\* Reached: engine A is on its second outbound session of room r1 and has
\* encrypted with it.
C18_Witness ==
    /\ outbound_group_sessions["A"]["r1"] # None
    /\ group_ids["A"] = 2
    /\ outbound_group_sessions["A"]["r1"][1].message_index >= 1
    /\ Cardinality(inbound_group_sessions["A"]["r1"]) = 2

----------------------------------------------------------------------------
(* The sessions engine A encrypts room keys with.                          *)

\* C19: every entry of a fan-out is encrypted with the first session of the
\* recipient device's list, at that session's counter, and the sharing
\* leaves every later session of every list as it was; in every step each
\* list keeps its sessions in place and at most gains sessions at its end.
C19_OldestSession ==
    [][/\ \A q \in Pairs :
             LET old == sessions["A"][q]
                 new == sessions'["A"][q]
             IN /\ Len(new) >= Len(old)
                /\ \A i \in DOMAIN old : new[i].sec = old[i].sec
                /\ last'.op = "group_encrypt"
                   => /\ Len(new) = Len(old)
                      /\ \A i \in DOMAIN old : i > 1 => new[i] = old[i]
       /\ outbound_group_sessions["A"]["r1"] # None
          => \A users \in UserLists :
                LET r == ShareNow(users)
                IN /\ \A m \in r.messages :
                         LET first == sessions["A"][<<m.user, m.device>>][1]
                             msg == m.olm.ciphertext.body
                         IN /\ msg.sec = first.sec
                            /\ msg.idx = first.snd
                            /\ r.sess[<<m.user, m.device>>][1].snd = first.snd + 1
                   /\ \A q \in Pairs : \A i \in DOMAIN sessions["A"][q] :
                         i > 1 => r.sess[q][i] = sessions["A"][q][i]]_vars

\* Reached: the device of B has two sessions; the fan-out used the first
\* and the second is untouched.
C19_Witness ==
    /\ last = Op("group_encrypt", "A", "ok")
    /\ Len(sessions["A"][<<"B", "DB">>]) = 2
    /\ sessions["A"][<<"B", "DB">>][1].snd >= 1
    /\ sessions["A"][<<"B", "DB">>][2].snd = 0
    /\ returned["A"]["r1"] # None

----------------------------------------------------------------------------
(* Memory and database of an engine.                                       *)

\* The identities of the sessions of each list, in order
SessionIdentities(sess) == [p \in Pairs |-> [i \in DOMAIN sess[p] |-> sess[p][i].sec]]

\* The (key, session id) pairs of the inbound group sessions of each room
GroupIdentities(inbound) == [r \in Rooms |-> {<<x.key, x.value.id>> : x \in inbound[r]}]

\* C20: after every operation, what load would read from the tables is what
\* the engine holds: the same pairwise sessions under the same user and
\* device in the same order, and the same inbound group sessions under the
\* same room and session id.
C20_UsedImpliesPersisted ==
    \A e \in Engines :
        /\ SessionIdentities(LoadSessions(olmsessions[e])) = SessionIdentities(sessions[e])
        /\ GroupIdentities(LoadInboundGroupSessions(db_inbound_group_sessions[e],
                                                    [r \in Rooms |-> {}]))
              = GroupIdentities(inbound_group_sessions[e])

----------------------------------------------------------------------------
(* The tables of pairwise and inbound group sessions.                      *)

\* The number of sessions an engine holds in memory
SessionCount(sess) ==
    Cardinality({<<p, i>> \in Pairs \X (1..(2 * Cardinality(OneTimeKeys))) :
                    i \in DOMAIN sess[p]})

\* C21: the olmsessions and inbound_group_sessions tables only grow at
\* their end, the rows they hold never changing; olmsessions gains exactly
\* one row per pairwise session that comes into being; and an operation that
\* works with sessions that exist (a decrypt that creates no session, a
\* group_encrypt on a room that has its outbound session together with the
\* key distribution it runs, a group_decrypt) adds no row to either table.
C21_RowsAtCreationOnly ==
    [][\A e \in Engines :
          /\ IsPrefix(olmsessions[e], olmsessions'[e])
          /\ IsPrefix(db_inbound_group_sessions[e], db_inbound_group_sessions'[e])
          /\ Len(olmsessions'[e]) - Len(olmsessions[e])
                = SessionCount(sessions'[e]) - SessionCount(sessions[e])
          /\ last'.op = "group_decrypt"
             => /\ olmsessions'[e] = olmsessions[e]
                /\ db_inbound_group_sessions'[e] = db_inbound_group_sessions[e]
          /\ last'.op = "decrypt"
             => /\ db_inbound_group_sessions'[e] = db_inbound_group_sessions[e]
                /\ SessionCount(sessions'[e]) = SessionCount(sessions[e])
                   => olmsessions'[e] = olmsessions[e]
          /\ last'.op = "group_encrypt"
             => /\ olmsessions'[e] = olmsessions[e]
                /\ \A room \in Rooms :
                      outbound_group_sessions[e][room] # None
                      => \A i \in DOMAIN db_inbound_group_sessions'[e] :
                            db_inbound_group_sessions'[e][i].room_id = room
                            => i \in DOMAIN db_inbound_group_sessions[e]]_vars

\* Reached: engine B has decrypted a second message through the session it
\* made from the first; the session has moved on, its row has not.
C21_Witness ==
    /\ last = Op("decrypt", "B", "ok")
    /\ Len(olmsessions["B"]) = 1
    /\ Len(sessions["B"][<<"A", "DA">>]) = 1
    /\ olmsessions["B"][1].pickle.rcv = {0}
    /\ sessions["B"][<<"A", "DA">>][1].rcv = {0, 1}
    /\ sessions["B"][<<"A", "DA">>][1].sec = olmsessions["B"][1].pickle.sec
    /\ Len(olmsessions["A"]) = 1
    /\ olmsessions["A"][1].pickle.snd = 0
    /\ sessions["A"][<<"B", "DB">>][1].snd = 2

----------------------------------------------------------------------------
(* The order of key distribution and first message on engine A.            *)

\* The m.room_key contents inside the entries of a fan-out
FanOutContents(messages) == {m.olm.ciphertext.body.body.dict.content : m \in messages}

\* C22: whenever group_encrypt returns, every room-key payload of the
\* fan-out it returns carries chain_index 0 and a key exported at index 0
\* for the session id of the ciphertext, the ciphertext that comes with a
\* fan-out is the first of its session, and the session id of the ciphertext
\* is in shared_sessions; after every step, an outbound session that has
\* encrypted a message is in shared_sessions.
C22_KeysBeforeFirstMessage ==
    [][/\ \A users \in UserLists :
             LET r == group_encrypt_result("A", "r1", "p1", "A", users)
             IN (~r.raised /\ group_encrypt("A", "r1", "p1", "A", users, FALSE))
                => /\ r.payload[1].session_id \in Range(shared_sessions'["A"])
                   /\ r.to_device # None
                      => /\ r.payload[1].ciphertext.index = 0
                         /\ \A k \in FanOutContents(r.to_device[1]) :
                               /\ k.chain_index = 0
                               /\ k.session_key.index = 0
                               /\ k.session_id = r.payload[1].session_id
                               /\ k.session_key.id = r.payload[1].session_id
                   /\ r.to_device = None => r.payload[1].ciphertext.index > 0
       /\ \A room \in Rooms :
             LET out == outbound_group_sessions'["A"][room]
             IN (out # None /\ out[1].message_index > 0)
                => out[1].id \in Range(shared_sessions'["A"])]_vars

\* Reached: a call blocked after it had encrypted the key for C's device was
\* repeated and returned the fan-out for both devices with the first message
\* of the session.
C22_Witness ==
    /\ last = Op("group_encrypt", "A", "ok")
    /\ group_ids["A"] = 1
    /\ sessions["A"][<<"C", "DC">>] # <<>>
    /\ sessions["A"][<<"C", "DC">>][1].snd = 2
    /\ returned["A"]["r1"] # None
    /\ returned["A"]["r1"][1].index = 0
    /\ returned["A"]["r1"][1].to_device # None
    /\ Cardinality(returned["A"]["r1"][1].to_device[1]) = 2
    /\ outbound_group_sessions["A"]["r1"][1].message_index = 1

----------------------------------------------------------------------------
(* Pre-key messages handed to engine A more than once.                     *)

\* C23: once the one-time key of a pre-key message is gone from the
\* account, decrypt of the message calls no session into being: it adds no
\* session to any list, writes no row and leaves the account alone, and it
\* returns None unless a session the engine holds decrypts the message; no
\* two sessions of the engine, and no two rows, are of the same identity.
C23_OneSessionPerPreKey ==
    /\ \A m \in ReplayMessages : \A order \in DeviceOrders("A", "C") :
          LET r == decrypt_result("A", "C", CurveOfC, m, order)
              loop == DecryptLoop("A", "C", m, Positions("A", "C", order), <<>>)
          IN m.sec.otk \notin account["A"]
             => /\ ~r.created
                /\ r.state.rows = olmsessions["A"]
                /\ r.state.otks = account["A"]
                /\ \A p \in Pairs : Len(r.state.sess[p]) = Len(sessions["A"][p])
                /\ ~loop.found => r.res = "None"
    /\ \A p, q \in Pairs :
          \A i \in DOMAIN sessions["A"][p] : \A j \in DOMAIN sessions["A"][q] :
             sessions["A"][p][i].sec = sessions["A"][q][j].sec => (p = q /\ i = j)
    /\ \A i, j \in DOMAIN olmsessions["A"] :
          olmsessions["A"][i].session_id = olmsessions["A"][j].session_id => i = j

\* Reached: the first message on one-time key 1 made the only session of
\* the engine, and was then handed to decrypt again: None, one session, one
\* row, the other one-time key still there.
C23_Witness ==
    /\ last = Op("decrypt", "A", "None")
    /\ account["A"] = {2}
    /\ Len(sessions["A"][<<"C", "DC">>]) = 1
    /\ sessions["A"][<<"C", "DC">>][1].role = "in"
    /\ sessions["A"][<<"C", "DC">>][1].sec.otk = 1
    /\ sessions["A"][<<"C", "DC">>][1].rcv = {0}
    /\ Len(olmsessions["A"]) = 1

----------------------------------------------------------------------------
(* The sessions engine A lacks.                                            *)

\* The (user, device id) pairs of a mapping get_missing_sessions returns
MissingPairs(missing) == UNION {{<<x.user, d>> : d \in x.devices} : x \in missing}

\* The known devices of the users, other than those with this device's own
\* device id, whose list of sessions in sess is empty
KnownWithoutSession(e, sess, users) ==
    {<<u, k.device_id>> : <<u, k>> \in
        {<<u, k>> \in UNION {{u} \X Range(devices[u]) : u \in Range(users) \cap DOMAIN devices} :
            k.device_id # device_id(e) /\ sess[<<u, k.device_id>>] = <<>>}}

\* The devices the loops of share_group_session pass over because the list
\* of sessions is empty
ShareSkipsNoSession(e, users) ==
    {<<v.user, v.key.device_id>> : v \in
        {w \in Range(Visits(users)) :
            ~IsOwnDevice(e, w.user, w.key) /\ sessions[e][<<w.user, w.key.device_id>>] = <<>>}}

\* C24: in every state and for every list of users, get_missing_sessions
\* returns a mapping whose (user, device) pairs are exactly the known
\* devices of the users, other than this device's own device id, without a
\* session, which are the devices share_group_session passes over for lack
\* of a session; a create_session that completes takes its (user, device)
\* out of the mapping and nothing else, so that the mapping is empty once
\* create_session has completed for every pair reported.
C24_MissingSessions ==
    [][\A users \in UserLists :
          LET r == get_missing_sessions_result("A", sessions["A"], users)
              after == get_missing_sessions_result("A", sessions'["A"], users)
          IN /\ r.res = "ok"
             /\ MissingPairs(r.missing) = KnownWithoutSession("A", sessions["A"], users)
             /\ MissingPairs(r.missing) = ShareSkipsNoSession("A", users)
             /\ \A x \in r.missing : x.devices # {}
             /\ last' = Op("create_session", "A", "None")
                => \E p \in Pairs :
                      /\ Len(sessions'["A"][p]) = Len(sessions["A"][p]) + 1
                      /\ MissingPairs(after.missing) = MissingPairs(r.missing) \ {p}
             /\ (\A p \in MissingPairs(r.missing) : sessions'["A"][p] # <<>>)
                => after.missing = {}]_vars

====
